---- MODULE Spec2Model ----
(***************************************************************************)
(* Thoughts in Bloom: the constellation view (src/constellation.js) and    *)
(* the part of the entry store it reads (src/script.js).                   *)
(*                                                                         *)
(* A text is modelled by the list of tokens text.split(/\s+/) gives; a     *)
(* token is an atomic string whose lower-case form, length class and       *)
(* hashtag are tabulated.  A JavaScript Number that holds a similarity     *)
(* score is modelled by its exact value in units of 1/Unit together with   *)
(* the rounding offset of the IEEE-754 evaluation (see RoundingUlp).       *)
(***************************************************************************)
EXTENDS Integers, Sequences, FiniteSets, TLC

VARIABLES
    store,              \* localStorage 'thoughts': the entries, newest first
    storageKind,        \* what localStorage.getItem('thoughts') holds (see StorageKinds)
    d3Available,        \* whether the D3 library was loaded by the page
    container,          \* content of #constellation-container
    g,                  \* the zoom group: "undefined", "attached", "detached"
    gDrawn,             \* g holds one element per node and per link
    simulation,         \* the force simulation held by `simulation`
    nodes,              \* module-level `nodes`
    links,              \* module-level `links`
    connectionStrength, \* module-level `connectionStrength`, in percent
    currentLayout,      \* module-level `currentLayout`
    highlightedNodes,   \* module-level `highlightedNodes`
    searchDimmed,       \* ids of the .node groups dimmed by the search box
    searchBox,          \* value of #constellation-search-input
    circleDim,          \* ids of the node circles at opacity 0.3
    linkLook,           \* style opacity of the .link lines (see StrengthLook)
    dragging,           \* subject of the drag gesture in progress (see NoDrag, ReplacedNode)
    listening,          \* handlers setupEventListeners has registered per control (up to Many)
    orphans,            \* kinds of simulations of earlier initialisations that still run
    uncaught,           \* an exception escaped initializeConstellation
    activeView,         \* the view showView displayed last
    initTimers,         \* pending setTimeout callbacks that call initializeConstellation
    zoomed,             \* the zoom transform of the canvas is not the identity
    modalNode,          \* the node shown in the open detail modal (NoNode when hidden)
    snapshot,           \* history: <<thoughts>> read by the latest build pass, <<>> before the first
    simA, simB,         \* inputs of a direct call of calculateSimilarity
    simScore,           \* its result
    homeBox,            \* value of the home view's search input
    currentSearchQuery, \* script.js `currentSearchQuery`
    searchDebounceTimer,\* script.js `searchDebounceTimer`: "null", or the handle of a "pending" or a "gone" timer
    debounceTimers,     \* pending timeouts that will call handleSearch
    isSearchExpanded,   \* script.js `isSearchExpanded`
    burstRuns,          \* history: runs of handleSearch since the current burst of keystrokes began
    layIn,              \* nodes array and container height of a run of applyHierarchicalLayout
    layOut              \* the layer and y it gave to each node of the array

vars == <<store, storageKind, d3Available, container, g, gDrawn, simulation, nodes, links,
          connectionStrength, currentLayout, highlightedNodes,
          searchDimmed, searchBox, circleDim, linkLook,
          dragging, listening, orphans, uncaught,
          activeView, initTimers, zoomed, modalNode, snapshot,
          simA, simB, simScore, layIn, layOut,
          homeBox, currentSearchQuery, searchDebounceTimer, debounceTimers,
          isSearchExpanded, burstRuns>>

storeVars == <<store, storageKind, d3Available>>
simVars   == <<simA, simB, simScore, layIn, layOut>>
homeVars  == <<homeBox, currentSearchQuery, searchDebounceTimer, debounceTimers,
               isSearchExpanded, burstRuns>>
graphVars == <<nodes, links, snapshot>>
domVars   == <<container, g, gDrawn, searchDimmed, searchBox, circleDim, linkLook>>
ctlVars   == <<connectionStrength, currentLayout, listening>>
pageVars  == <<activeView, initTimers, zoomed, modalNode>>

----------------------------------------------------------------------------
(* Bounds of the model *)

MaxEntries == 3
MaxWords == 2

----------------------------------------------------------------------------
(* Tokens and tags *)

None == "none"

\* String.prototype.toLowerCase on a token
Lower(tok) ==
    CASE tok = "Deep"   -> "deep"
      [] tok = "#John." -> "#john."
      [] tok = "#Mary." -> "#mary."
      [] OTHER          -> tok

\* w.length > 3
LongerThan3(tok) == tok \notin {"cat", "#ai"}

\* text.match(/#\w+/g) restricted to one token, lower-cased; None if no match
TagOf(tok) ==
    CASE tok \in {"#john", "#John."} -> "#john"
      [] tok \in {"#mary", "#Mary."} -> "#mary"
      [] tok = "#ai"                 -> "#ai"
      [] OTHER                       -> None

Range(s) == {s[i] : i \in DOMAIN s}

\* [...new Set(seq)]: the distinct elements in order of first occurrence
RECURSIVE Dedup(_)
Dedup(s) ==
    IF s = <<>> THEN <<>>
    ELSE LET init == Dedup(SubSeq(s, 1, Len(s) - 1))
             last == s[Len(s)]
         IN  IF last \in Range(init) THEN init ELSE Append(init, last)

\* extractTags(text)
extractTags(text) ==
    Dedup(SelectSeq([i \in DOMAIN text |-> TagOf(text[i])], LAMBDA t : t # None))

----------------------------------------------------------------------------
(* Numbers: a score is q/Unit, displaced by e ulps from the double nearest *)
(* to q/Unit.  value/100 of the slider is a correctly rounded division.    *)

Unit == 100 * 60

Double(q, e) == [q |-> q, e |-> e]

\* a >= b on doubles: distinct exact values are far more than an ulp apart
GreaterEq(a, b) == a.q > b.q \/ (a.q = b.q /\ a.e >= b.e)

\* value / 100
Percent(value) == Double(value * (Unit \div 100), 0)

\* Rounding offset of ((it/ut) * 0.6) + ((iw/uw) * 0.4) in IEEE-754 doubles,
\* for ut <= 3 and uw <= 4 (a term with union 0 is not added):
\*   (1/3)*0.6 = 0.19999999999999998, (2/3)*0.6 = 0.39999999999999997,
\*   (3/4)*0.4 = 0.30000000000000004, 0.3 + 0.30000000000000004 likewise.
RoundingUlp(it, ut, iw, uw) ==
    IF ut = 3 /\ it \in {1, 2} /\ iw = 0 THEN -1
    ELSE IF uw = 4 /\ iw = 3 /\ (it = 0 \/ (it = 1 /\ ut = 2)) THEN 1
    ELSE 0

\* score after `score += tagScore * 0.6` and `score += textScore * 0.4`,
\* where tagScore = it/ut (ut = 0: not added), textScore = iw/uw likewise
WeightedSum(it, ut, iw, uw) ==
    Double((IF ut > 0 THEN (6 * (Unit \div 10) * it) \div ut ELSE 0)
           + (IF uw > 0 THEN (4 * (Unit \div 10) * iw) \div uw ELSE 0),
           RoundingUlp(it, ut, iw, uw))

----------------------------------------------------------------------------
(* calculateSimilarity *)

\* new Set(text.toLowerCase().split(/\s+/).filter(w => w.length > 3))
WordSet(text) == {Lower(text[i]) : i \in {j \in DOMAIN text : LongerThan3(Lower(text[j]))}}

\* variant: the text weight is renormalised to 1 when a node has no tags
SimilarityRenormalised(node1, node2) ==
    LET tagged == Len(node1.tags) > 0 /\ Len(node2.tags) > 0
        words1 == WordSet(node1.text)
        words2 == WordSet(node2.text)
        tags1 == Range(node1.tags)
        tags2 == Range(node2.tags)
    IN  IF tagged
        THEN WeightedSum(Cardinality(tags1 \cap tags2), Cardinality(tags1 \cup tags2),
                         Cardinality(words1 \cap words2), Cardinality(words1 \cup words2))
        ELSE WeightedSum(Cardinality(words1 \cap words2), Cardinality(words1 \cup words2),
                         Cardinality(words1 \cap words2), Cardinality(words1 \cup words2))

\* variant: the two Jaccard scores are added without weights
SimilarityUnweighted(node1, node2) ==
    LET tagged == Len(node1.tags) > 0 /\ Len(node2.tags) > 0
        words1 == WordSet(node1.text)
        words2 == WordSet(node2.text)
        tags1 == Range(node1.tags)
        tags2 == Range(node2.tags)
        tu == Cardinality(tags1 \cup tags2)
        wu == Cardinality(words1 \cup words2)
    IN  Double((IF tagged THEN (Unit * Cardinality(tags1 \cap tags2)) \div tu ELSE 0)
               + (IF wu > 0 THEN (Unit * Cardinality(words1 \cap words2)) \div wu ELSE 0), 0)

\* variant: the tag score is taken relative to the first node's tags
SimilarityOfFirst(node1, node2) ==
    LET tagged == Len(node1.tags) > 0 /\ Len(node2.tags) > 0
        words1 == WordSet(node1.text)
        words2 == WordSet(node2.text)
        tags1 == Range(node1.tags)
        tags2 == Range(node2.tags)
    IN  WeightedSum(IF tagged THEN Cardinality(tags1 \cap tags2) ELSE 0,
                    IF tagged THEN Cardinality(tags1) ELSE 0,
                    Cardinality(words1 \cap words2), Cardinality(words1 \cup words2))

calculateSimilarity(node1, node2) ==
    LET tagged == Len(node1.tags) > 0 /\ Len(node2.tags) > 0
        tags1 == Range(node1.tags)
        tags2 == Range(node2.tags)
        intersection == {x \in tags1 : x \in tags2}
        union == tags1 \cup tags2
        words1 == WordSet(node1.text)
        words2 == WordSet(node2.text)
        wordIntersection == {x \in words1 : x \in words2}
        wordUnion == words1 \cup words2
    IN  WeightedSum(IF tagged THEN Cardinality(intersection) ELSE 0,
                    IF tagged THEN Cardinality(union) ELSE 0,
                    IF Cardinality(wordUnion) > 0 THEN Cardinality(wordIntersection) ELSE 0,
                    Cardinality(wordUnion))

----------------------------------------------------------------------------
(* Direct calls of calculateSimilarity on the nodes of stored entries *)

\* sequences over S of length <= n
RECURSIVE SeqsUpTo(_, _)
SeqsUpTo(S, n) ==
    IF n = 0 THEN {<<>>}
    ELSE LET shorter == SeqsUpTo(S, n - 1)
         IN  shorter \cup {Append(s, x) : s \in shorter, x \in S}

\* whitespace-separated tokens a text is made of
SimTokens == {"#john", "#John.", "#mary", "#ai", "deep", "Deep", "cat"}

\* thoughtInput.value.trim() is not empty when an entry is saved
SimTexts == SeqsUpTo(SimTokens, MaxWords) \ {<<>>}

\* entries hold the tags extracted from their text; entries saved before
\* tags were extracted hold none
SimNodes ==
    {[tags |-> extractTags(t), text |-> t] : t \in SimTexts}
        \cup {[tags |-> <<>>, text |-> t] : t \in SimTexts}

NoScore == Double(-1, 0)

----------------------------------------------------------------------------
(* The entry store (src/script.js) *)

\* texts the user types into the home view
HomeTexts ==
    { <<"#john", "#mary">>,
      <<"#John.">>,
      <<"#Mary.", "#ai">> }

\* positions of the slider (0..100) the user moves it to
SliderValues == {0, 10, 20, 30, 100}

\* the slider moved between two positions only
TwoSliderValues == {10, 20}

Layouts == {"force", "circular", "hierarchical"}

\* raw contents of the constellation search box
SearchInputs == {"", " John "}

\* e.target.value.toLowerCase().trim()
NormaliseQuery(raw) == IF raw = " John " THEN "john" ELSE raw

\* lowerCaseToken.includes(query)
TokenIncludes(tok, query) ==
    \/ query = ""
    \/ query = "john" /\ tok \in {"#john", "#john."}

\* node.text.toLowerCase().includes(query), for a query without white space
TextIncludes(text, query) ==
    query = "" \/ \E i \in DOMAIN text : TokenIncludes(Lower(text[i]), query)

Ids(s) == {s[i].id : i \in DOMAIN s}

\* localStorage.getItem('thoughts'): null, a string JSON.parse rejects, the
\* JSON of a value that is not an array, the JSON of the array `store`
StorageKinds == {"absent", "unparsable", "notArray", "array"}

\* variant of getThoughts without try/catch and without the Array.isArray test
getThoughtsUnguarded ==
    [threw |-> storageKind = "unparsable",
     isArray |-> storageKind # "notArray",
     list |-> IF storageKind = "array" THEN store ELSE <<>>]

\* getThoughts: what the call returns (list), whether it lets an exception
\* out (threw) and whether the returned value is an array (isArray)
getThoughts ==
    [threw |-> FALSE,
     isArray |-> TRUE,
     list |-> CASE storageKind = "absent"     -> <<>>
                [] storageKind = "unparsable" -> <<>>
                [] storageKind = "notArray"   -> <<>>
                [] OTHER                      -> store]

\* thoughts.filter(t => !t.archived)
Active(thoughts) == SelectSeq(thoughts, LAMBDA t : ~t.archived)

\* saveThought: a new entry with a fresh id is put at the front
saveThought(text) ==
    /\ text # <<>>
    /\ Len(store) < MaxEntries
    /\ store' = <<[id |-> Len(store) + 1, text |-> text,
                   tags |-> extractTags(text), archived |-> FALSE]>> \o store
    /\ storageKind' = "array"
    /\ UNCHANGED <<d3Available, domVars, simulation, orphans, graphVars, ctlVars,
                   highlightedNodes, dragging, uncaught, simVars, homeVars, pageVars>>

\* archiveThought / restoreThought: the archived flag of one entry is set
SetArchived(thoughtId, flag) ==
    /\ \E i \in DOMAIN store :
          /\ store[i].id = thoughtId
          /\ store[i].archived # flag
          /\ store' = [store EXCEPT ![i].archived = flag]
    /\ UNCHANGED <<storageKind, d3Available, domVars, simulation, orphans, graphVars, ctlVars,
                   highlightedNodes, dragging, uncaught, simVars, homeVars, pageVars>>

archiveThought(thoughtId) == SetArchived(thoughtId, TRUE)

restoreThought(thoughtId) == SetArchived(thoughtId, FALSE)

----------------------------------------------------------------------------
(* The connection builder *)

\* an endpoint of a link: the bare id calculateConnections stores, or the
\* node object the link force puts in its place
Bare(id) == [obj |-> FALSE, id |-> id]
Resolved(id) == [obj |-> TRUE, id |-> id]

Undefined == 0

\* one link object
Link(source, target, strength) ==
    [source |-> Bare(source), target |-> Bare(target), strength |-> strength]

\* variant of the inner loop: strength > connectionStrength
RECURSIVE ConnectionsOfRowStrict(_, _, _, _)
ConnectionsOfRowStrict(ns, i, j, threshold) ==
    IF j > Len(ns) THEN <<>>
    ELSE LET strength == calculateSimilarity(ns[i], ns[j])
         IN  (IF ~GreaterEq(threshold, strength)
              THEN <<Link(ns[i].id, ns[j].id, strength)>>
              ELSE <<>>) \o ConnectionsOfRowStrict(ns, i, j + 1, threshold)

\* variant of the inner loop: strength <= connectionStrength
RECURSIVE ConnectionsOfRowBelow(_, _, _, _)
ConnectionsOfRowBelow(ns, i, j, threshold) ==
    IF j > Len(ns) THEN <<>>
    ELSE LET strength == calculateSimilarity(ns[i], ns[j])
         IN  (IF GreaterEq(threshold, strength)
              THEN <<Link(ns[i].id, ns[j].id, strength)>>
              ELSE <<>>) \o ConnectionsOfRowBelow(ns, i, j + 1, threshold)

\* the inner loop of calculateConnections: j from the given index to the end
RECURSIVE ConnectionsOfRow(_, _, _, _)
ConnectionsOfRow(ns, i, j, threshold) ==
    IF j > Len(ns) THEN <<>>
    ELSE LET strength == calculateSimilarity(ns[i], ns[j])
         IN  (IF GreaterEq(strength, threshold)
              THEN <<Link(ns[i].id, ns[j].id, strength)>>
              ELSE <<>>) \o ConnectionsOfRow(ns, i, j + 1, threshold)

\* variant of the outer loop: the inner loop starts at j = i
RECURSIVE ConnectionsFromSelf(_, _, _)
ConnectionsFromSelf(ns, i, threshold) ==
    IF i > Len(ns) THEN <<>>
    ELSE ConnectionsOfRow(ns, i, i, threshold)
         \o ConnectionsFromSelf(ns, i + 1, threshold)

\* variant of the outer loop: the inner loop starts at j = 1 and skips j = i
RECURSIVE ConnectionsFromAll(_, _, _)
ConnectionsFromAll(ns, i, threshold) ==
    IF i > Len(ns) THEN <<>>
    ELSE SelectSeq(ConnectionsOfRow(ns, i, 1, threshold),
                   LAMBDA l : l.target.id # ns[i].id)
         \o ConnectionsFromAll(ns, i + 1, threshold)

\* the outer loop of calculateConnections: i from the given index to the end
RECURSIVE ConnectionsFrom(_, _, _)
ConnectionsFrom(ns, i, threshold) ==
    IF i > Len(ns) THEN <<>>
    ELSE ConnectionsOfRow(ns, i, i + 1, threshold)
         \o ConnectionsFrom(ns, i + 1, threshold)

calculateConnections(ns, strengthPercent) ==
    ConnectionsFrom(ns, 1, Percent(strengthPercent))

\* endpoint.id: the id of a node object, undefined on a bare id
IdField(endpoint) == IF endpoint.obj THEN endpoint.id ELSE Undefined

\* link.source.id || link.source, link.target.id || link.target
EndpointId(endpoint) ==
    IF IdField(endpoint) # Undefined THEN IdField(endpoint) ELSE endpoint.id

SourceId(link) == EndpointId(link.source)
TargetId(link) == EndpointId(link.target)

\* n.id === endpoint.id || n.id === endpoint
NodeIs(n, endpoint) ==
    n.id = IdField(endpoint) \/ (~endpoint.obj /\ n.id = endpoint.id)

\* index of the first node the predicate of nodes.find accepts, 0 if none
FindNode(ns, endpoint) ==
    IF \E i \in DOMAIN ns : NodeIs(ns[i], endpoint)
    THEN CHOOSE i \in DOMAIN ns :
            NodeIs(ns[i], endpoint) /\ \A k \in 1..(i - 1) : ~NodeIs(ns[k], endpoint)
    ELSE 0

\* variant: the graph is rendered before the counts are accumulated
CountsNotAccumulated(ns, ls) == ns

\* variant: only the source node is counted
RECURSIVE UpdateSourceCounts(_, _)
UpdateSourceCounts(ns, ls) ==
    IF ls = <<>> THEN ns
    ELSE LET s == FindNode(ns, Head(ls).source)
         IN  UpdateSourceCounts(IF s # 0 THEN [ns EXCEPT ![s].connections = @ + 1] ELSE ns,
                                Tail(ls))

\* links.forEach(link => { sourceNode.connections++; targetNode.connections++ })
RECURSIVE UpdateConnectionCounts(_, _)
UpdateConnectionCounts(ns, ls) ==
    IF ls = <<>> THEN ns
    ELSE LET link == Head(ls)
             s == FindNode(ns, link.source)
             afterSource == IF s # 0 THEN [ns EXCEPT ![s].connections = @ + 1] ELSE ns
             t == FindNode(afterSource, link.target)
             afterTarget == IF t # 0
                            THEN [afterSource EXCEPT ![t].connections = @ + 1]
                            ELSE afterSource
         IN  UpdateConnectionCounts(afterTarget, Tail(ls))

\* activeThoughts.map(thought => ({id, text, tags, date, connections: 0}))
ThoughtsToNodes(activeThoughts) ==
    [i \in DOMAIN activeThoughts |->
        [id |-> activeThoughts[i].id, text |-> activeThoughts[i].text,
         tags |-> activeThoughts[i].tags, connections |-> 0,
         pos |-> "none", pinned |-> FALSE]]

----------------------------------------------------------------------------
(* Layout and rendering *)

\* where the x and y of a node come from: "none" (no x, y), "simulation"
\* (initialised by simulation.nodes and moved by the forces), "layout"
\* (assigned by a static layout)

\* variant of applyForceLayout: nothing is deleted
applyForceLayoutKeeping(ns) == ns

\* applyForceLayout: delete node.x, node.y, node.fx, node.fy
applyForceLayout(ns) ==
    [i \in DOMAIN ns |-> [ns[i] EXCEPT !.pos = "none", !.pinned = FALSE]]

\* applyCircularLayout / applyHierarchicalLayout: every node gets x and y
applyStaticLayout(ns) ==
    [i \in DOMAIN ns |-> [ns[i] EXCEPT !.pos = "layout"]]

\* simulation.nodes(nodes): a node without a position is given one
simulationNodes(ns) ==
    [i \in DOMAIN ns |-> [ns[i] EXCEPT !.pos = IF @ = "none" THEN "simulation" ELSE @]]

\* simulation.force('link').links(links): bare ids become node objects
forceLinks(ls) ==
    [i \in DOMAIN ls |->
        [ls[i] EXCEPT !.source = Resolved(EndpointId(@)),
                      !.target = Resolved(EndpointId(@))]]

\* d3.forceSimulation(): a new simulation runs from its creation
\* alphaTarget in tenths; alpha is "one" from alpha(1) or creation until the
\* first tick, "decayed" after it; holds tells which arrays the simulation,
\* its link force and the selections of its tick callback refer to: "none"
\* (no simulation.nodes(...) yet, no tick callback), "current" (the arrays
\* the module variables nodes and links refer to), "replaced" (arrays of an
\* earlier build pass, the variables having been assigned new ones)
NewSimulation == [running |-> TRUE, alphaTarget |-> 0, alpha |-> "one", holds |-> "none"]

NoSimulation == [running |-> FALSE, alphaTarget |-> 0, alpha |-> "one", holds |-> "none"]

\* nodes = ..., links = ...: the module variables get new arrays
ArraysReplaced(sim) ==
    [sim EXCEPT !.holds = IF @ = "current" THEN "replaced" ELSE @]

\* the nodes after renderGraph
RenderedNodes(ns, layout) ==
    IF layout = "force" THEN simulationNodes(applyForceLayout(ns))
    ELSE applyStaticLayout(ns)

\* the links after renderGraph
RenderedLinks(ls, layout) ==
    IF layout = "force" THEN forceLinks(ls) ELSE ls

\* the simulation after renderGraph: alpha(1).restart(), or stop()
\* variant: the simulation is restarted on the arrays it already holds
RenderedSimulationUnbound(sim, layout) ==
    IF layout = "force" THEN [sim EXCEPT !.running = TRUE, !.alpha = "one"]
    ELSE [sim EXCEPT !.running = FALSE]

\* simulation.nodes(nodes).on('tick', ...), force('link').links(links),
\* alpha(1).restart(); or simulation.stop()
RenderedSimulation(sim, layout) ==
    IF layout = "force"
    THEN [sim EXCEPT !.running = TRUE, !.alpha = "one", !.holds = "current"]
    ELSE [sim EXCEPT !.running = FALSE]

\* the style opacity of the lines: none set, so that the stroke-opacity
\* attribute 0.3 + 0.5 * strength shows ("strength", also when the style is
\* set to that value); set by a hover to 0.8 on the lines lit and 0.1 on the
\* others ("hover"); set by a search to 0.6 on the lines lit and 0.1 on the
\* others ("search"); lit holds positions in links
StrengthLook == [by |-> "strength", lit |-> {}]

\* the circles and lines of a group g that has just been filled, or is empty
FreshLook == <<{}, StrengthLook>>

\* renderGraph on the arrays ns, ls: g is emptied and filled again
renderGraph(ns, ls, layout, sim) ==
    /\ nodes' = RenderedNodes(ns, layout)
    /\ links' = RenderedLinks(ls, layout)
    /\ simulation' = RenderedSimulation(sim, layout)
    /\ gDrawn' = TRUE
    /\ searchDimmed' = {}
    /\ circleDim' = FreshLook[1]
    /\ linkLook' = FreshLook[2]

\* showEmptyConstellation: the container's children are replaced by the
\* empty-state message; an svg in it, and g with it, leaves the document
showEmptyConstellation(g0) ==
    /\ container' = "empty-state"
    /\ g' = IF g0 = "attached" THEN "detached" ELSE g0

\* the subject d of the drag gesture in progress: a node id, NoDrag when no
\* gesture is in progress, ReplacedNode when a build pass has replaced the
\* node objects since the gesture began
NoDrag == 0

ReplacedNode == 0 - 1

\* getThoughts() lets an exception out, or thoughts.filter is applied to a
\* value that is not an array
ReadThrows == getThoughts.threw \/ ~getThoughts.isArray

\* loadConstellationData, run with the container c0, the group g0 (holding
\* elements or not: drawn0, dimmed0, look0) and the simulation sim0
loadConstellationData(c0, g0, drawn0, dimmed0, look0, sim0) ==
    LET thoughts == getThoughts.list
        activeThoughts == Active(thoughts)
        newNodes == ThoughtsToNodes(activeThoughts)
        newLinks == calculateConnections(newNodes, connectionStrength')
    IN  IF ReadThrows
        THEN /\ uncaught' = TRUE
             /\ container' = c0
             /\ g' = g0
             /\ gDrawn' = drawn0
             /\ searchDimmed' = dimmed0
             /\ circleDim' = look0[1]
             /\ linkLook' = look0[2]
             /\ UNCHANGED searchBox
             /\ simulation' = sim0
             /\ UNCHANGED <<nodes, links, dragging, snapshot>>
        ELSE
        /\ snapshot' = <<thoughts>>
        /\ UNCHANGED <<uncaught, searchBox>>
        /\ IF Len(activeThoughts) = 0
           THEN /\ showEmptyConstellation(g0)
                /\ gDrawn' = drawn0
                /\ searchDimmed' = dimmed0
                /\ circleDim' = look0[1]
                /\ linkLook' = look0[2]
                /\ simulation' = sim0
                /\ UNCHANGED <<nodes, links, dragging>>
           ELSE /\ container' = c0
                /\ g' = g0
                /\ dragging' = IF dragging = NoDrag THEN NoDrag ELSE ReplacedNode
                /\ renderGraph(UpdateConnectionCounts(newNodes, newLinks), newLinks,
                               currentLayout', ArraysReplaced(sim0))

----------------------------------------------------------------------------
(* initializeConstellation and the control handlers *)

\* more than one: handlers are counted 0, 1, Many
Many == 2

\* addEventListener on a control that holds n handlers
Registered(n) == IF n < Many THEN n + 1 ELSE Many

\* initializeConstellation: without D3 the first statement, d3.select(...),
\* throws a ReferenceError; otherwise the container is emptied, the canvas and
\* a new simulation are created, the data is loaded and the handlers are added
initializeConstellationBody ==
    IF ~d3Available
    THEN /\ uncaught' = TRUE
         /\ UNCHANGED <<storeVars, domVars, simulation, orphans, graphVars, ctlVars,
                        highlightedNodes, dragging, simVars, homeVars, activeView, zoomed, modalNode>>
    ELSE /\ UNCHANGED <<connectionStrength, currentLayout, activeView, modalNode>>
         /\ zoomed' = FALSE
         /\ loadConstellationData("svg", "attached", FALSE, {}, FreshLook, NewSimulation)
         /\ listening' = IF ReadThrows THEN listening ELSE Registered(listening)
         /\ orphans' = IF simulation.running
                        THEN orphans \cup {IF simulation.alphaTarget > 0 THEN "held" ELSE "cooling"}
                        ELSE orphans
         /\ UNCHANGED <<storeVars, highlightedNodes, simVars, homeVars>>

\* window.initializeConstellation called directly
initializeConstellation == initializeConstellationBody /\ UNCHANGED initTimers

\* 'input' on #connection-strength
strengthSliderInput(value) ==
    /\ listening > 0
    /\ value # connectionStrength
    /\ connectionStrength' = value
    /\ UNCHANGED currentLayout
    /\ loadConstellationData(container, g, gDrawn, searchDimmed, <<circleDim, linkLook>>, simulation)
    /\ UNCHANGED <<storeVars, listening, orphans, highlightedNodes, simVars, homeVars, pageVars>>

\* variant: the layout handler runs a build pass
layoutSelectRebuild(layout) ==
    /\ listening > 0
    /\ layout # currentLayout
    /\ currentLayout' = layout
    /\ UNCHANGED connectionStrength
    /\ loadConstellationData(container, g, gDrawn, searchDimmed, <<circleDim, linkLook>>, simulation)
    /\ UNCHANGED <<storeVars, listening, orphans, highlightedNodes, simVars, homeVars, pageVars>>

\* 'change' on #layout-select
layoutSelectChange(layout) ==
    /\ listening > 0
    /\ layout # currentLayout
    /\ currentLayout' = layout
    /\ renderGraph(nodes, links, layout, simulation)
    /\ UNCHANGED <<storeVars, container, g, searchBox, snapshot, connectionStrength, listening, orphans,
                   highlightedNodes, dragging, uncaught, simVars, homeVars, pageVars>>

\* filterNodesBySearch: the ids of the .node groups set to opacity 0.2
filterNodesBySearch(query) ==
    IF query = "" THEN {}
    ELSE {nodes[i].id : i \in {j \in DOMAIN nodes : ~TextIncludes(nodes[j].text, query)}}

\* variant: the search handler runs a build pass before it filters
searchInputRebuild(raw) ==
    /\ listening > 0
    /\ UNCHANGED <<connectionStrength, currentLayout>>
    /\ loadConstellationData(container, g, gDrawn, searchDimmed, <<circleDim, linkLook>>, simulation)
    /\ UNCHANGED <<storeVars, listening, orphans, highlightedNodes, simVars, homeVars, pageVars>>

\* filterNodesBySearch: the lines set to opacity 0.6, the others to 0.1; the
\* style is set to the strength value when the query is empty
SearchLook(query) ==
    IF query = "" THEN StrengthLook
    ELSE [by |-> "search",
          lit |-> {k \in DOMAIN links :
                      /\ SourceId(links[k]) \notin filterNodesBySearch(query)
                      /\ TargetId(links[k]) \notin filterNodesBySearch(query)}]

\* 'input' on #constellation-search-input
searchInput(raw) ==
    /\ listening > 0
    /\ searchBox' = raw
    /\ searchDimmed' = IF gDrawn THEN filterNodesBySearch(NormaliseQuery(raw)) ELSE {}
    /\ linkLook' = IF gDrawn THEN SearchLook(NormaliseQuery(raw)) ELSE linkLook
    /\ UNCHANGED <<storeVars, container, g, gDrawn, circleDim, simulation, orphans, graphVars, ctlVars,
                   highlightedNodes, dragging, uncaught, simVars, homeVars, pageVars>>

\* the pointer can reach the elements of g only while g is in the document
OnScreen == g = "attached" /\ gDrawn

\* variant: only link.source.id and link.target.id are compared
HighlightedResolvedOnly(id) ==
    {id} \cup {IdField(links[i].target) :
                  i \in {j \in DOMAIN links : links[j].target.obj /\ IdField(links[j].source) = id}}
         \cup {IdField(links[i].source) :
                  i \in {j \in DOMAIN links : links[j].source.obj /\ IdField(links[j].target) = id}}

\* handleNodeHover(event, d): d and the nodes linked to it
Highlighted(id) ==
    {id} \cup {TargetId(links[i]) : i \in {j \in DOMAIN links : SourceId(links[j]) = id}}
         \cup {SourceId(links[i]) : i \in {j \in DOMAIN links : TargetId(links[j]) = id}}

\* the lines a hover on d sets to opacity 0.8
HoverLit(id) ==
    {k \in DOMAIN links : SourceId(links[k]) = id \/ TargetId(links[k]) = id}

handleNodeHover(id) ==
    /\ OnScreen
    /\ id \in Ids(nodes)
    /\ highlightedNodes' = Highlighted(id)
    /\ circleDim' = Ids(nodes) \ highlightedNodes'
    /\ linkLook' = [by |-> "hover", lit |-> HoverLit(id)]
    /\ UNCHANGED <<storeVars, container, g, gDrawn, searchDimmed, searchBox,
                   simulation, orphans, graphVars, ctlVars,
                   dragging, uncaught, simVars, homeVars, pageVars>>

\* handleNodeLeave
handleNodeLeave ==
    /\ OnScreen
    /\ highlightedNodes # {}
    /\ highlightedNodes' = {}
    /\ circleDim' = {}
    /\ linkLook' = StrengthLook
    /\ UNCHANGED <<storeVars, container, g, gDrawn, searchDimmed, searchBox,
                   simulation, orphans, graphVars, ctlVars,
                   dragging, uncaught, simVars, homeVars, pageVars>>

\* d.fx = ..., d.fy = ... on the node object with the id
SetPin(ns, id) ==
    [i \in DOMAIN ns |-> IF ns[i].id = id THEN [ns[i] EXCEPT !.pinned = TRUE] ELSE ns[i]]

\* dragStarted(event, d), no other gesture active
dragStarted(id) ==
    /\ OnScreen
    /\ dragging = NoDrag
    /\ id \in Ids(nodes)
    /\ dragging' = id
    /\ simulation' = IF currentLayout = "force"
                     THEN [simulation EXCEPT !.running = TRUE, !.alphaTarget = 3]
                     ELSE simulation
    /\ nodes' = SetPin(nodes, id)
    /\ UNCHANGED <<storeVars, domVars, orphans, links, snapshot, ctlVars,
                   highlightedNodes, uncaught, simVars, homeVars, pageVars>>

\* dragged(event, d)
dragged ==
    /\ dragging # NoDrag
    /\ nodes' = SetPin(nodes, dragging)
    /\ UNCHANGED <<storeVars, domVars, simulation, orphans, links, snapshot, ctlVars,
                   highlightedNodes, dragging, uncaught, simVars, homeVars, pageVars>>

\* dragEnded(event, d)
dragEnded ==
    /\ dragging # NoDrag
    /\ dragging' = NoDrag
    /\ simulation' = IF currentLayout = "force"
                     THEN [simulation EXCEPT !.alphaTarget = 0]
                     ELSE simulation
    /\ UNCHANGED <<storeVars, domVars, orphans, graphVars, ctlVars,
                   highlightedNodes, uncaught, simVars, homeVars, pageVars>>

\* the simulation's timer: alpha decays to its target and, the target being
\* below alphaMin, the simulation stops itself
simulationCools ==
    /\ simulation.running
    /\ simulation.alphaTarget = 0
    /\ simulation' = [simulation EXCEPT !.running = FALSE, !.alpha = "decayed"]
    /\ UNCHANGED <<storeVars, domVars, orphans, graphVars, ctlVars,
                   highlightedNodes, dragging, uncaught, simVars, homeVars, pageVars>>

\* one tick of the simulation's timer: alpha moves toward its target and
\* the tick callback redraws the elements it was bound to
simulationTick ==
    /\ simulation.running
    /\ simulation' = [simulation EXCEPT !.alpha = "decayed"]
    /\ UNCHANGED <<storeVars, domVars, orphans, graphVars, ctlVars,
                   highlightedNodes, dragging, uncaught, simVars, homeVars, pageVars>>

\* the timers of the simulations earlier initialisations created: those with
\* alpha target 0 stop themselves, those left at a raised target never do
orphansCool ==
    /\ "cooling" \in orphans
    /\ orphans' = orphans \ {"cooling"}
    /\ UNCHANGED <<storeVars, domVars, simulation, graphVars, ctlVars,
                   highlightedNodes, dragging, uncaught, simVars, homeVars, pageVars>>

----------------------------------------------------------------------------
(* The page *)

EmptyNode == [tags |-> <<>>, text |-> <<>>]

\* no node: ids start at 1
NoNode == 0

\* the module state of constellation.js before the first initialisation
PageFresh(d3) ==
    /\ d3Available = d3
    /\ container = "blank"
    /\ g = "undefined"
    /\ gDrawn = FALSE
    /\ simulation = NoSimulation
    /\ nodes = <<>>
    /\ links = <<>>
    /\ connectionStrength = 20
    /\ currentLayout = "force"
    /\ highlightedNodes = {}
    /\ searchDimmed = {}
    /\ searchBox = ""
    /\ circleDim = {}
    /\ linkLook = StrengthLook
    /\ dragging = NoDrag
    /\ listening = 0
    /\ orphans = {}
    /\ uncaught = FALSE
    /\ homeBox = ""
    /\ currentSearchQuery = ""
    /\ searchDebounceTimer = "null"
    /\ debounceTimers = 0
    /\ isSearchExpanded = FALSE
    /\ burstRuns = 0
    /\ zoomed = FALSE
    /\ modalNode = NoNode
    /\ snapshot = <<>>

\* the state when the scripts have been loaded: the store holds what earlier
\* sessions left in localStorage, nothing has been initialised
PageLoaded(thoughts, d3) ==
    /\ store = thoughts
    /\ storageKind = (IF thoughts = <<>> THEN "absent" ELSE "array")
    /\ PageFresh(d3)
    /\ activeView = "home"
    /\ initTimers = 0

\* no run of applyHierarchicalLayout is followed
NoLayoutRun == [nodes |-> <<>>, height |-> 0]

NoCall ==
    /\ simA = EmptyNode
    /\ simB = EmptyNode
    /\ simScore = NoScore
    /\ layIn = NoLayoutRun
    /\ layOut = <<>>

\* the k-th text the user saves
TypedText(k) ==
    CASE k % 3 = 1 -> <<"#john", "#mary">>
      [] k % 3 = 2 -> <<"#John.">>
      [] OTHER     -> <<"#Mary.", "#ai">>

\* a store of n entries, newest first, with the given texts and flags
StoreOf(n, texts, flags) ==
    [i \in 1..n |-> [id |-> n + 1 - i, text |-> texts[n + 1 - i],
                     tags |-> extractTags(texts[n + 1 - i]),
                     archived |-> flags[n + 1 - i]]]

\* the entry store changes (home and archive views)
StoreNext ==
    \/ saveThought(TypedText(Len(store) + 1))
    \/ \E id \in Ids(store) : archiveThought(id)
    \/ \E id \in Ids(store) : restoreThought(id)

\* build and layout passes
BuildNext ==
    \/ initializeConstellation
    \/ \E value \in SliderValues : strengthSliderInput(value)
    \/ \E layout \in Layouts : layoutSelectChange(layout)

\* pointer and keyboard interaction with the drawn graph, and the simulation
ViewNext ==
    \/ \E raw \in SearchInputs : searchInput(raw)
    \/ \E id \in Ids(nodes) : handleNodeHover(id)
    \/ handleNodeLeave
    \/ \E id \in Ids(nodes) : dragStarted(id)
    \/ dragged
    \/ dragEnded
    \/ simulationCools

(* The store is filled and emptied between visits of the constellation view *)

Init == PageLoaded(<<>>, TRUE) /\ NoCall

InitNoD3 == PageLoaded(<<>>, FALSE) /\ NoCall

Next == StoreNext \/ BuildNext

Spec == (Init \/ InitNoD3) /\ [][Next]_vars

(* Build passes over a store that holds any texts *)

InitBuild ==
    /\ \E n \in 0..MaxEntries :
         \E texts \in [1..n -> HomeTexts], flags \in [1..n -> BOOLEAN] :
            PageLoaded(StoreOf(n, texts, flags), TRUE)
    /\ NoCall

SpecBuild == InitBuild /\ [][BuildNext]_vars

(* The user works on the drawn graph; the store is not touched *)

InitView ==
    /\ \E flags \in [1..MaxEntries -> BOOLEAN] :
            PageLoaded(StoreOf(MaxEntries, [k \in 1..MaxEntries |-> TypedText(k)], flags), TRUE)
    /\ NoCall

\* the view is entered once
NextView ==
    \/ listening = 0 /\ initializeConstellation
    \/ \E value \in TwoSliderValues : strengthSliderInput(value)
    \/ \E layout \in Layouts : layoutSelectChange(layout)
    \/ ViewNext

SpecView == InitView /\ [][NextView]_vars

----------------------------------------------------------------------------
(* calculateSimilarity called on two arbitrary nodes *)

InitSim ==
    /\ PageLoaded(<<>>, TRUE)
    /\ simA \in SimNodes
    /\ simB \in SimNodes
    /\ simScore = NoScore
    /\ layIn = NoLayoutRun
    /\ layOut = <<>>

similarityCall ==
    /\ simScore = NoScore
    /\ simScore' = calculateSimilarity(simA, simB)
    /\ UNCHANGED <<storeVars, domVars, simulation, orphans, graphVars, ctlVars,
                   highlightedNodes, dragging, uncaught, simA, simB, layIn, layOut, pageVars, homeVars>>

NextSim == similarityCall

SpecSim == InitSim /\ [][NextSim]_vars

----------------------------------------------------------------------------
(* The 'thoughts' key holds anything: it is written by the application and  *)
(* can be replaced or removed from outside it (another tab, the browser)   *)

storageOverwritten(kind) ==
    /\ kind # "array"
    /\ storageKind' = kind
    /\ store' = <<>>
    /\ UNCHANGED <<d3Available, domVars, simulation, orphans, graphVars, ctlVars,
                   highlightedNodes, dragging, uncaught, simVars, homeVars, pageVars>>

InitStorage ==
    /\ storageKind \in StorageKinds
    /\ store = <<>>
    /\ PageFresh(TRUE)
    /\ activeView = "home"
    /\ initTimers = 0
    /\ NoCall

NextStorage ==
    \/ StoreNext
    \/ initializeConstellation
    \/ \E value \in SliderValues : strengthSliderInput(value)
    \/ \E kind \in StorageKinds : storageOverwritten(kind)

SpecStorage == InitStorage /\ [][NextStorage]_vars

----------------------------------------------------------------------------
(* Navigation between the views (script.js) and a whole session of the page *)

Views == {"home", "constellation", "archive"}

\* pending initialisation timers the model follows
MaxTimers == 1

\* showView(viewName): the view is displayed, the others are hidden, and the
\* constellation view is initialised 100 ms later; nothing is stopped
showView(viewName) ==
    /\ viewName = "constellation" => initTimers < MaxTimers
    /\ activeView' = viewName
    /\ initTimers' = IF viewName = "constellation" THEN initTimers + 1 ELSE initTimers
    /\ UNCHANGED <<storeVars, domVars, simulation, orphans, graphVars, ctlVars,
                   highlightedNodes, dragging, uncaught, simVars, homeVars, zoomed>>

\* 'click' on a sidebar item
sidebarItemClick(viewName) ==
    /\ showView(viewName)
    /\ UNCHANGED modalNode

\* the callback of setTimeout(() => window.initializeConstellation(), 100)
initTimerFires ==
    /\ initTimers > 0
    /\ initTimers' = initTimers - 1
    /\ initializeConstellationBody

\* the constellation view is the one displayed
Visible == activeView = "constellation"

\* handleNodeClick(event, d): selectedNode = d and the detail modal opens
handleNodeClick(id) ==
    /\ OnScreen
    /\ id \in Ids(nodes)
    /\ modalNode' = id
    /\ UNCHANGED <<storeVars, domVars, simulation, orphans, graphVars, ctlVars,
                   highlightedNodes, dragging, uncaught, simVars, homeVars,
                   activeView, initTimers, zoomed>>

\* handleNodeDoubleClick(event, d): showView('home'); editThought(d.id) follows
\* 100 ms later on the home view
handleNodeDoubleClick(id) ==
    /\ OnScreen
    /\ id \in Ids(nodes)
    /\ showView("home")
    /\ UNCHANGED modalNode

\* 'click' on #modal-edit-btn: the modal closes and handleNodeDoubleClick runs
\* on selectedNode
modalEditClick ==
    /\ listening > 0
    /\ modalNode # NoNode
    /\ modalNode' = NoNode
    /\ showView("home")

\* the 'zoom' event of the canvas: g gets the transform of a wheel or pan gesture
zoomGesture ==
    /\ g = "attached"
    /\ ~zoomed
    /\ zoomed' = TRUE
    /\ UNCHANGED <<storeVars, domVars, simulation, orphans, graphVars, ctlVars,
                   highlightedNodes, dragging, uncaught, simVars, homeVars,
                   activeView, initTimers, modalNode>>

\* the page is loaded on the home view with entries of earlier sessions, none archived
InitSession ==
    /\ LET n == MaxEntries - 1
       IN  PageLoaded(StoreOf(n, [k \in 1..n |-> TypedText(k)], [k \in 1..n |-> FALSE]), TRUE)
    /\ NoCall

\* what the user can do on the displayed constellation view
SessionViewNext ==
    \/ \E layout \in Layouts : layoutSelectChange(layout)
    \/ \E id \in Ids(nodes) : dragStarted(id)
    \/ dragged
    \/ dragEnded
    \/ \E id \in Ids(nodes) : handleNodeClick(id)
    \/ \E id \in Ids(nodes) : handleNodeDoubleClick(id)
    \/ modalEditClick
    \/ zoomGesture

NextSession ==
    \/ \E viewName \in Views : sidebarItemClick(viewName)
    \/ initTimerFires
    \/ Visible /\ SessionViewNext
    \/ activeView = "home" /\ \E id \in Ids(store) : archiveThought(id)
    \/ activeView = "archive" /\ \E id \in Ids(store) : restoreThought(id)
    \/ simulationTick
    \/ simulationCools
    \/ orphansCool

SpecSession == InitSession /\ [][NextSession]_vars

----------------------------------------------------------------------------
(* Build passes, timers and ticks interleaved on the displayed view *)

\* the window 'resize' listener: while the view is displayed every event
\* schedules an initialisation 300 ms later; no pending timer is cancelled
windowResize ==
    /\ Visible
    /\ initTimers < MaxTimers
    /\ initTimers' = initTimers + 1
    /\ UNCHANGED <<storeVars, domVars, simulation, orphans, graphVars, ctlVars,
                   highlightedNodes, dragging, uncaught, simVars, homeVars,
                   activeView, zoomed, modalNode>>

InitDraw == InitView

NextDraw ==
    \/ sidebarItemClick("constellation")
    \/ windowResize
    \/ initTimerFires
    \/ Visible /\ \E value \in TwoSliderValues : strengthSliderInput(value)
    \/ Visible /\ \E layout \in Layouts : layoutSelectChange(layout)
    \/ \E id \in Ids(store) : archiveThought(id)
    \/ \E id \in Ids(store) : restoreThought(id)
    \/ simulationTick
    \/ simulationCools
    \/ orphansCool

SpecDraw == InitDraw /\ [][NextDraw]_vars

----------------------------------------------------------------------------
(* applyHierarchicalLayout run on the nodes of arbitrary graphs *)

\* nodes in an array the hierarchical layout is followed on
MaxLayoutNodes == 12

\* the container is displayed: offsetHeight in pixels
CanvasHeights == {300, 600}

\* a graph on the nodes 1..n from a creation sequence: node i is joined to
\* every earlier node when creation[i], and to none of them otherwise
CreatedEdges(n, creation) ==
    {{j, i} : j \in 1..n, i \in {k \in 1..n : creation[k]}} \ {{i} : i \in 1..n}

EarlierJoined(n, creation) ==
    {e \in CreatedEdges(n, creation) :
        \E i \in e : creation[i] /\ \A j \in e : j <= i}

\* the nodes array of that graph, connection counts accumulated
LayoutNodes(n, creation) ==
    [i \in 1..n |->
        [id |-> i,
         connections |-> Cardinality({e \in EarlierJoined(n, creation) : i \in e})]]

\* variant: Math.floor in place of Math.ceil
nodesPerLayerFloor(n) == IF n < 5 THEN 1 ELSE n \div 5

\* const nodesPerLayer = Math.ceil(sortedNodes.length / layers), layers = 5
nodesPerLayer(n) == (n + 4) \div 5

\* [...nodes].sort((a, b) => b.connections - a.connections): the sort is
\* stable, an element is placed after those that do not compare after it
RECURSIVE InsertSorted(_, _)
InsertSorted(sorted, node) ==
    IF sorted = <<>> THEN <<node>>
    ELSE IF Head(sorted).connections >= node.connections
         THEN <<Head(sorted)>> \o InsertSorted(Tail(sorted), node)
         ELSE <<node>> \o sorted

RECURSIVE SortedNodes(_)
SortedNodes(ns) ==
    IF ns = <<>> THEN <<>>
    ELSE InsertSorted(SortedNodes(SubSeq(ns, 1, Len(ns) - 1)), ns[Len(ns)])

\* sortedNodes.forEach((node, i) => ...): layer, place in the layer, and y in
\* sixths of a pixel, (height / (layers + 1)) * (layer + 1), for the element
\* at index i (from 0)
PlacedAt(i, n, height) ==
    LET layer == i \div nodesPerLayer(n)
    IN  [layer |-> layer,
         posInLayer |-> i % nodesPerLayer(n),
         totalInLayer |-> IF nodesPerLayer(n) < n - layer * nodesPerLayer(n)
                          THEN nodesPerLayer(n) ELSE n - layer * nodesPerLayer(n),
         y |-> height * (layer + 1)]

\* applyHierarchicalLayout: what each node object of the array is given
HierarchicalLayers(ns, height) ==
    LET sorted == SortedNodes(ns)
        RankOf(id) == CHOOSE r \in DOMAIN sorted : sorted[r].id = id
    IN  [k \in DOMAIN ns |-> PlacedAt(RankOf(ns[k].id) - 1, Len(ns), height)]

InitLayers ==
    /\ PageLoaded(<<>>, TRUE)
    /\ simA = EmptyNode
    /\ simB = EmptyNode
    /\ simScore = NoScore
    /\ \E n \in 0..MaxLayoutNodes :
         \E creation \in [1..n -> BOOLEAN], height \in CanvasHeights :
            layIn = [nodes |-> LayoutNodes(n, creation), height |-> height]
    /\ layOut = <<>>

hierarchicalLayoutRun ==
    /\ layOut = <<>>
    /\ layIn.nodes # <<>>
    /\ layOut' = HierarchicalLayers(layIn.nodes, layIn.height)
    /\ UNCHANGED <<storeVars, domVars, simulation, orphans, graphVars, ctlVars,
                   highlightedNodes, dragging, uncaught, simA, simB, simScore, layIn,
                   pageVars, homeVars>>

NextLayers == hierarchicalLayoutRun

SpecLayers == InitLayers /\ [][NextLayers]_vars

----------------------------------------------------------------------------
(* The search of the home view (script.js) *)

\* values of the home search input
HomeInputs == {"", "j", " John "}

\* searchInput.value.trim().toLowerCase()
TrimLower(value) == NormaliseQuery(value)

\* the other variables of the page, which the home search does not touch
restVars == <<storeVars, domVars, simulation, orphans, graphVars, ctlVars,
              highlightedNodes, dragging, uncaught, simVars, pageVars>>

\* expandSearch (the toggle button, Ctrl+K / Cmd+K)
expandSearch ==
    /\ ~isSearchExpanded
    /\ isSearchExpanded' = TRUE
    /\ UNCHANGED <<homeBox, currentSearchQuery, searchDebounceTimer, debounceTimers,
                   burstRuns, restVars>>

\* variant: the pending timer is not cleared
homeSearchInputNoCancel(value) ==
    /\ isSearchExpanded
    /\ value # homeBox
    /\ debounceTimers < 3
    /\ homeBox' = value
    /\ debounceTimers' = debounceTimers + 1
    /\ searchDebounceTimer' = "pending"
    /\ burstRuns' = IF debounceTimers = 0 THEN 0 ELSE burstRuns
    /\ UNCHANGED <<currentSearchQuery, isSearchExpanded, restVars>>

\* 'input' on the home search input: clearTimeout(searchDebounceTimer) when
\* it is set, then searchDebounceTimer = setTimeout(handleSearch, 300)
homeSearchInput(value) ==
    /\ isSearchExpanded
    /\ value # homeBox
    /\ homeBox' = value
    /\ debounceTimers' = (IF searchDebounceTimer = "pending"
                          THEN debounceTimers - 1 ELSE debounceTimers) + 1
    /\ searchDebounceTimer' = "pending"
    /\ burstRuns' = IF debounceTimers = 0 THEN 0 ELSE burstRuns
    /\ UNCHANGED <<currentSearchQuery, isSearchExpanded, restVars>>

\* the debounce timeout elapses: handleSearch reads the input as it is now
debounceFires ==
    /\ debounceTimers > 0
    /\ debounceTimers' = debounceTimers - 1
    /\ searchDebounceTimer' = IF debounceTimers = 1 THEN "gone" ELSE searchDebounceTimer
    /\ currentSearchQuery' = TrimLower(homeBox)
    /\ burstRuns' = burstRuns + 1
    /\ UNCHANGED <<homeBox, isSearchExpanded, restVars>>

\* clearSearch: the input and the query are emptied; no timer is cleared
clearSearch ==
    /\ homeBox' = ""
    /\ currentSearchQuery' = ""

\* collapseSearch, the search being expanded
collapseSearch ==
    /\ isSearchExpanded' = FALSE
    /\ IF currentSearchQuery # "" THEN clearSearch
       ELSE UNCHANGED <<homeBox, currentSearchQuery>>

\* 'click' on the clear button, shown while the query is not empty
clearSearchClick ==
    /\ isSearchExpanded
    /\ currentSearchQuery # ""
    /\ clearSearch
    /\ UNCHANGED <<searchDebounceTimer, debounceTimers, isSearchExpanded, burstRuns, restVars>>

\* 'keydown' Escape on the search input
escapeKey ==
    /\ isSearchExpanded
    /\ IF currentSearchQuery # "" THEN clearSearch /\ UNCHANGED isSearchExpanded
       ELSE collapseSearch
    /\ UNCHANGED <<searchDebounceTimer, debounceTimers, burstRuns, restVars>>

\* handleClickOutside: a click outside the search section while expanded
clickOutside ==
    /\ isSearchExpanded
    /\ collapseSearch
    /\ UNCHANGED <<searchDebounceTimer, debounceTimers, burstRuns, restVars>>

InitHome == Init

NextHome ==
    \/ StoreNext
    \/ expandSearch
    \/ \E value \in HomeInputs : homeSearchInput(value)
    \/ debounceFires
    \/ clearSearchClick
    \/ escapeKey
    \/ clickOutside

SpecHome == InitHome /\ [][NextHome]_vars

----------------------------------------------------------------------------
(* Properties *)

\* a build pass has run
HasBuilt == snapshot # <<>>

\* the entries the latest build pass read from the store
Read == snapshot[1]

\* a build pass has run and found active entries
Built == HasBuilt /\ Len(Active(Read)) > 0

\* a build pass has run and found no active entry
BuiltEmpty == HasBuilt /\ Len(Active(Read)) = 0

\* the unordered pair of node ids an edge joins
PairOf(link) == {SourceId(link), TargetId(link)}

Pairs(ls) == {PairOf(ls[k]) : k \in DOMAIN ls}

\* number of edges that name the id as source or as target
EdgesAt(id) ==
    Cardinality({k \in DOMAIN links : SourceId(links[k]) = id \/ TargetId(links[k]) = id})

\* C1: once a build pass has run, every node's connection count is the number
\* of edges of the current edge set that have the node's id as source or
\* target, whatever layout changes, searches, hovers and drags followed.
C1_ConnectionCounts ==
    HasBuilt =>
        \A i \in DOMAIN nodes : nodes[i].connections = EdgesAt(nodes[i].id)

\* C1 witness: a node with two edges that is pinned by a drag, in a static
\* layout, with a hover highlight and a search dimming in place
C1_Witness ==
    /\ \E i \in DOMAIN nodes : nodes[i].connections = 2 /\ nodes[i].pinned
    /\ currentLayout # "force"
    /\ highlightedNodes # {}
    /\ searchDimmed # {}
    /\ \E k \in DOMAIN links : links[k].source.obj

\* the similarity of two entries reaches the threshold (in percent)
Qualifies(a, b, percent) == GreaterEq(calculateSimilarity(a, b), Percent(percent))

\* C2: after a build pass over a non-empty snapshot of active entries at
\* threshold t, the nodes are the active entries and the edge set is exactly
\* the set of unordered pairs of distinct nodes with similarity >= t.
C2_EdgesAreQualifyingPairs ==
    Built =>
        LET act == Active(Read)
        IN  /\ Len(nodes) = Len(act)
            /\ \A i \in DOMAIN act : nodes[i].id = act[i].id
            /\ \A i, j \in DOMAIN act :
                  i < j => (Qualifies(act[i], act[j], connectionStrength)
                            <=> {act[i].id, act[j].id} \in Pairs(links))
            /\ \A k \in DOMAIN links :
                  \E i, j \in DOMAIN act :
                      /\ i < j
                      /\ PairOf(links[k]) = {act[i].id, act[j].id}
                      /\ Qualifies(act[i], act[j], connectionStrength)

\* C2 witness: three entries of which exactly two pairs reach the threshold
C2_Witness ==
    /\ Built
    /\ Len(nodes) = 3
    /\ Cardinality(Pairs(links)) = 2
    /\ connectionStrength > 0

\* Jaccard similarity of two finite sets as a fraction <<numerator, denominator>>,
\* <<0, 1>> for two empty sets
Jaccard(A, B) ==
    IF A \cup B = {} THEN <<0, 1>>
    ELSE <<Cardinality(A \cap B), Cardinality(A \cup B)>>

TagJaccard(a, b) ==
    IF Range(a.tags) = {} \/ Range(b.tags) = {} THEN <<0, 1>>
    ELSE Jaccard(Range(a.tags), Range(b.tags))

WordJaccard(a, b) == Jaccard(WordSet(a.text), WordSet(b.text))

\* C3: calculateSimilarity(a, b) is 0.6 * J(tags) + 0.4 * J(words), the tag
\* term 0 when either has no tags, the word term 0 when the word union is
\* empty, no weight renormalised; the value is the double nearest to it or
\* one of its neighbours; one shared tag of two with no common word gives
\* 0.3, identical text (with a word longer than 3 characters) and no tags 0.4.
C3_WeightedJaccard ==
    simScore # NoScore =>
        LET tj == TagJaccard(simA, simB)
            wj == WordJaccard(simA, simB)
        IN  /\ simScore.q * 10 * tj[2] * wj[2]
                  = Unit * (6 * tj[1] * wj[2] + 4 * wj[1] * tj[2])
            /\ simScore.e \in {-1, 0, 1}
            /\ (tj = <<1, 2>> /\ wj[1] = 0) => simScore = Percent(30)
            /\ (/\ simA.text = simB.text
                /\ WordSet(simA.text) # {}
                /\ simA.tags = <<>>
                /\ simB.tags = <<>>) => simScore = Percent(40)

\* C3 witness: one shared tag of two, no common word, the score is 0.3
C3_Witness ==
    /\ simScore = Percent(30)
    /\ TagJaccard(simA, simB) = <<1, 2>>
    /\ WordSet(simA.text) # {}
    /\ WordSet(simB.text) # {}
    /\ WordSet(simA.text) \cap WordSet(simB.text) = {}

\* C4: after a build pass no node corresponds to an entry that was archived
\* in the store the build pass read.
C4_NoArchivedNode ==
    HasBuilt =>
        \A i \in DOMAIN nodes, k \in DOMAIN Read :
            Read[k].id = nodes[i].id => ~Read[k].archived

\* number of node and link elements in g
GraphElements == IF gDrawn THEN Len(nodes) + Len(links) ELSE 0

\* C5: when the latest build pass found no active entry, the graph is empty,
\* the empty state is shown and there are no graph elements.
C5_EmptyGraph ==
    BuiltEmpty =>
        /\ nodes = <<>>
        /\ links = <<>>
        /\ container = "empty-state"
        /\ GraphElements = 0

\* C6: initializeConstellation without D3 ends in the static error state and
\* lets no exception escape.
C6_D3ErrorState ==
    [][(~d3Available /\ initializeConstellation)
          => (container' = "d3-error" /\ ~uncaught')]_vars

\* the unordered pairs of entries whose similarity reaches the threshold
QualifyingPairs(act, percent) ==
    {{act[p[1]].id, act[p[2]].id} :
        p \in {q \in (DOMAIN act) \X (DOMAIN act) :
                  q[1] < q[2] /\ Qualifies(act[q[1]], act[q[2]], percent)}}

\* the threshold slider has been moved and the build pass read the same entries
SliderMoved ==
    /\ connectionStrength' # connectionStrength
    /\ Built
    /\ snapshot' = snapshot

\* C7: on the same snapshot a higher threshold builds a subset of the edges
\* a lower one builds, and the edge set is determined by the snapshot and the
\* threshold alone, so that returning the slider restores the edge set.
C7_ThresholdMonotone ==
    /\ [][SliderMoved =>
            /\ connectionStrength' > connectionStrength => Pairs(links') \subseteq Pairs(links)
            /\ connectionStrength' < connectionStrength => Pairs(links) \subseteq Pairs(links')]_vars
    /\ [](Built => Pairs(links) = QualifyingPairs(Active(Read), connectionStrength))

\* C7 witness: three nodes at threshold 0.2 with one edge left of the two
\* that threshold 0.1 builds
C7_Witness ==
    /\ Built
    /\ connectionStrength = 20
    /\ Len(nodes) = 3
    /\ Cardinality(Pairs(links)) = 1
    /\ Cardinality(QualifyingPairs(Active(Read), 10)) = 2

\* C8: calculateSimilarity(A, B) = calculateSimilarity(B, A).
C8_Symmetric ==
    simScore # NoScore => simScore = calculateSimilarity(simB, simA)

\* C8 witness: two nodes with different numbers of tags, different texts and
\* a positive score from both terms
C8_Witness ==
    /\ simScore # NoScore
    /\ Len(simA.tags) < Len(simB.tags)
    /\ simA.text # simB.text
    /\ TagJaccard(simA, simB)[1] > 0
    /\ WordJaccard(simA, simB)[1] > 0

\* C9: no edge has its source id equal to its target id.
C9_NoSelfEdge ==
    \A k \in DOMAIN links : SourceId(links[k]) # TargetId(links[k])

\* C9 witness: a graph in which every pair of three nodes is joined
C9_Witness == Built /\ Len(nodes) = 3 /\ Len(links) = 3

\* C10: no two edges join the same unordered pair of node ids.
C10_OneEdgePerPair ==
    \A k, l \in DOMAIN links : k # l => PairOf(links[k]) # PairOf(links[l])

\* C10 witness: two edges that share a node, rendered in a static layout
C10_Witness ==
    /\ Built
    /\ Len(links) = 2
    /\ PairOf(links[1]) \cap PairOf(links[2]) # {}
    /\ currentLayout = "circular"

\* C11: 0 <= calculateSimilarity(A, B) <= 1 for all nodes A and B.
C11_ScoreInUnitInterval ==
    simScore # NoScore =>
        /\ GreaterEq(simScore, Percent(0))
        /\ GreaterEq(Percent(100), simScore)

\* C11 witness: two different texts with the same tags and the same long
\* words reach the upper bound 1
C11_Witness ==
    /\ simScore = Percent(100)
    /\ simA.text # simB.text
    /\ Len(simA.tags) = 2

\* C11 for the edges: every emitted strength lies in [0, 1]
StrengthsInUnitInterval ==
    \A k \in DOMAIN links :
        GreaterEq(links[k].strength, Percent(0)) /\ GreaterEq(Percent(100), links[k].strength)

\* a build pass: initializeConstellation or a move of the threshold slider
BuildPass == initializeConstellation \/ \E value \in SliderValues : strengthSliderInput(value)

\* C12: whatever the 'thoughts' key holds, the read of a build pass yields a
\* list and lets no exception out; when the key is absent, unparsable or not
\* an array the list is empty and the pass does what it does with no entry:
\* it shows the empty state and leaves the arrays alone.
C12_CorruptedReadsAsEmpty ==
    [][BuildPass =>
          /\ uncaught' = uncaught
          /\ HasBuilt'
          /\ storageKind = "array" => Read' = store
          /\ storageKind # "array" =>
                /\ Read' = <<>>
                /\ container' = "empty-state"
                /\ nodes' = nodes
                /\ links' = links]_vars

\* C12 witness: the empty state shown by a build pass that read a key the
\* application cannot parse, after an earlier pass had drawn the entries
C12_Witness ==
    /\ HasBuilt
    /\ storageKind = "unparsable"
    /\ Read = <<>>
    /\ container = "empty-state"
    /\ ~uncaught
    /\ nodes # <<>>

\* no node carries fx, fy
NoPins == \A i \in DOMAIN nodes : ~nodes[i].pinned

\* C13: initializeConstellation invoked again on the same entry store leaves
\* the graph, the threshold and the layout mode as the earlier invocation
\* left them, no pinned node, no simulation of the earlier invocation still
\* running and one handler on each control.
C13_InitIdempotent ==
    [][(initializeConstellation /\ HasBuilt /\ Read = getThoughts.list) =>
          /\ Ids(nodes') = Ids(nodes)
          /\ Pairs(links') = Pairs(links)
          /\ connectionStrength' = connectionStrength
          /\ currentLayout' = currentLayout
          /\ NoPins'
          /\ orphans' = {}
          /\ listening' = 1]_vars

\* C14: a change of the search query leaves the nodes (ids, connection
\* counts, positions, pins), the edges, the threshold, the layout mode and
\* the simulation as they are.
C14_SearchIsOpacityOnly ==
    [][(\E raw \in SearchInputs : searchInput(raw)) =>
          /\ nodes' = nodes
          /\ links' = links
          /\ connectionStrength' = connectionStrength
          /\ currentLayout' = currentLayout
          /\ simulation' = simulation]_vars

\* C14 witness: a search has dimmed a node while another node is pinned, an
\* edge exists and the simulation runs
C14_Witness ==
    /\ searchDimmed # {}
    /\ \E i \in DOMAIN nodes : nodes[i].pinned
    /\ links # <<>>
    /\ simulation.running

\* the edges as unordered id pairs with their strengths
StrengthOfPairs(ls) == {<<PairOf(ls[k]), ls[k].strength>> : k \in DOMAIN ls}

\* the connection count of every node id
CountOfIds(ns) == {<<ns[i].id, ns[i].connections>> : i \in DOMAIN ns}

\* C15: a change of the layout mode keeps the node ids, the edges (id pairs
\* with strengths), the connection counts and the threshold, and does not
\* read the entry store.
C15_LayoutKeepsGraph ==
    [][(\E layout \in Layouts : layoutSelectChange(layout)) =>
          /\ Ids(nodes') = Ids(nodes)
          /\ Len(nodes') = Len(nodes)
          /\ StrengthOfPairs(links') = StrengthOfPairs(links)
          /\ Len(links') = Len(links)
          /\ CountOfIds(nodes') = CountOfIds(nodes)
          /\ connectionStrength' = connectionStrength
          /\ snapshot' = snapshot]_vars

\* C15 witness: a static layout of a graph with an edge, drawn after the
\* store has changed since the build pass
C15_Witness ==
    /\ currentLayout = "hierarchical"
    /\ gDrawn
    /\ HasBuilt
    /\ links # <<>>
    /\ Len(Active(store)) > Len(nodes)

\* C16: a step that takes the page from the constellation view to another view
\* (sidebar item, double click on a node, the modal's edit button) leaves the
\* simulation stopped, and the simulation ticks only while the constellation
\* view is the displayed one
C16_NavigationStopsSimulation ==
    [][/\ (Visible /\ activeView' # "constellation") => ~simulation'.running
       /\ simulationTick => Visible]_vars

\* the positions a build pass gives under the layout: the simulation's or the
\* static layout's
FreshPos(layout) == IF layout = "force" THEN "simulation" ELSE "layout"

\* C17: when the constellation view has been entered again (the initialisation
\* scheduled by showView has run), no node is pinned, every node has the
\* position this build gave it, and the zoom transform is the identity
C17_ReentryBuildsFresh ==
    [][initTimerFires =>
         /\ NoPins'
         /\ \A i \in DOMAIN nodes' : nodes'[i].pos = FreshPos(currentLayout')
         /\ ~zoomed']_vars

\* the ids of the nodes that hold fx and fy
PinnedIds(ns) == {ns[i].id : i \in {j \in DOMAIN ns : ns[j].pinned}}

\* C18: during a visit of the view a pinned node stays pinned under every
\* step (threshold change, search, hover, click, switch to a static layout,
\* drag) except a switch of the layout to force
C18_PinsLastForTheSession ==
    [][~(currentLayout # "force" /\ currentLayout' = "force") =>
         PinnedIds(nodes) \subseteq PinnedIds(nodes')]_vars

\* a render pass has drawn the graph in a static layout
StaticRendered == currentLayout # "force" /\ gDrawn

\* the simulation held by the module is stopped in a static layout
CurrentSimulationHalted == StaticRendered => ~simulation.running

\* C19: while the layout is circular or hierarchical and the graph has been
\* rendered, no force simulation is running: neither the one the module
\* holds nor one created by an earlier initialisation
C19_StaticLayoutHasNoSimulation ==
    StaticRendered => (~simulation.running /\ orphans = {})

\* every node has the position the simulation initialised for it, and no pin
RestartedFromScratch ==
    /\ NoPins
    /\ \A i \in DOMAIN nodes : nodes[i].pos = "simulation"
    /\ simulation.running
    /\ simulation.alpha = "one"

\* C20: a step that sets the layout to force from another layout leaves no
\* node pinned, gives every node a position initialised by the simulation
\* (x, y, fx, fy were deleted before simulation.nodes(nodes)), and leaves the
\* simulation running with alpha = 1
C20_ForceRestartsFromScratch ==
    [][(currentLayout # "force" /\ currentLayout' = "force") => RestartedFromScratch']_vars

\* the layout was set back to force while a drag gesture that had pinned a
\* node was in progress: the pin is gone
C20_Witness ==
    /\ currentLayout = "force"
    /\ dragging \in Ids(nodes)
    /\ Len(nodes) >= 2
    /\ RestartedFromScratch

\* C21: when no drag gesture is in progress the alpha target of the
\* simulation is 0, so that the decay of alpha stops the simulation; the
\* target raised by dragStarted has been returned to 0 by dragEnded whatever
\* happened in between
C21_AlphaTargetReturned ==
    dragging = NoDrag => simulation.alphaTarget = 0

\* nodes, links and connection counts fit together as one build pass leaves
\* them: the edges are the qualifying pairs of the nodes at one threshold and
\* every count is the number of edges at the node
OneBuild ==
    /\ \E percent \in SliderValues : Pairs(links) = QualifyingPairs(nodes, percent)
    /\ Len(links) = Cardinality(Pairs(links))
    /\ \A i \in DOMAIN nodes : nodes[i].connections = EdgesAt(nodes[i].id)

\* C22: what a render pass has drawn, and what a tick callback of the running
\* simulation draws, are nodes, edges and connection counts of one completed
\* build pass: the arrays of the module fit together, and the simulation that
\* ticks holds those arrays and not replaced ones
C22_DrawSeesOneBuild ==
    /\ gDrawn => OneBuild
    /\ (simulation.running /\ simulation.holds # "none") =>
           (simulation.holds = "current" /\ OneBuild)

\* C22 witness: the simulation ticks on a graph with an edge that was rebuilt
\* by a threshold change, with an initialisation timer pending and a
\* simulation of an earlier initialisation still cooling
C22_Witness ==
    /\ simulation.running
    /\ simulation.alpha = "decayed"
    /\ simulation.holds = "current"
    /\ Len(links) > 0
    /\ connectionStrength = 10
    /\ initTimers > 0
    /\ orphans # {}

\* the trimmed, lower-cased query the search box holds
BoxQuery == NormaliseQuery(searchBox)

\* C23: while the graph is drawn and the search box holds a non-empty query,
\* the nodes whose text does not contain it are dimmed, the edges with both
\* endpoints matching are at the search's moderate opacity and the other
\* edges at its dimmed one, whatever hovers, layout changes and threshold
\* changes followed the typing
C23_SearchDimmingPersists ==
    (gDrawn /\ BoxQuery # "") =>
        /\ searchDimmed = filterNodesBySearch(BoxQuery)
        /\ linkLook = SearchLook(BoxQuery)

\* the node groups keep the search dimming under hover and un-hover
SearchDimmingOfNodesKept ==
    [][(handleNodeLeave \/ \E id \in Ids(nodes) : handleNodeHover(id)) =>
          searchDimmed' = searchDimmed]_vars

\* a node and the nodes that share an edge with it
Neighbourhood(id) == {id} \cup {m \in Ids(nodes) : {id, m} \in Pairs(links)}

\* the edges (positions in links) that join the node to another
IncidentEdges(id) == {k \in DOMAIN links : id \in PairOf(links[k])}

\* the nodes displayed at full opacity: circle at opacity 1 in a group that
\* the search has not dimmed
FullyShown == Ids(nodes) \ (circleDim \cup searchDimmed)

\* C24 (as amended): a hover on node n sets the circles of exactly n and the
\* nodes sharing an edge with n to opacity 1 and the other circles to 0.3,
\* and the lines of exactly the edges incident to n to 0.8 and the others
\* to 0.1, with bare or resolved endpoints; the nodes displayed at full
\* opacity are those of them whose group the search has not dimmed
C24_HoverHighlights ==
    [][\A id \in Ids(nodes) : handleNodeHover(id) =>
          /\ Ids(nodes') \ circleDim' = Neighbourhood(id)
          /\ highlightedNodes' = Neighbourhood(id)
          /\ linkLook' = [by |-> "hover", lit |-> IncidentEdges(id)]
          /\ FullyShown' = Neighbourhood(id) \ searchDimmed]_vars

\* C24 witness: a hover on a node with a neighbour and a non-neighbour, the
\* edges holding bare ids (built under a static layout)
C24_Witness ==
    /\ linkLook.by = "hover"
    /\ linkLook.lit # {}
    /\ circleDim # {}
    /\ Cardinality(highlightedNodes) = 2
    /\ currentLayout # "force"
    /\ \A k \in DOMAIN links : ~links[k].source.obj /\ ~links[k].target.obj

\* C24 as stated: after a hover on n the nodes displayed at full opacity are
\* exactly n and the nodes sharing an edge with n
C24_HoverShowsAtFullOpacity ==
    [][\A id \in Ids(nodes) : handleNodeHover(id) => FullyShown' = Neighbourhood(id)]_vars

\* the connection counts of the array the layout ran on
LayCount(i) == layIn.nodes[i].connections

\* rank in descending connection count, ties in array order, from 0
LayRank(i) ==
    Cardinality({j \in DOMAIN layIn.nodes : LayCount(j) > LayCount(i)})
    + Cardinality({j \in DOMAIN layIn.nodes : j < i /\ LayCount(j) = LayCount(i)})

\* ceil(n / 5) by its definition: the least m with 5 * m >= n
CeilFifth(n) == CHOOSE m \in 0..n : 5 * m >= n /\ \A k \in 0..n : 5 * k >= n => m <= k

\* C25: the hierarchical layout puts the node of rank r in layer
\* floor(r / ceil(n/5)); layers are 0..4, none holds more than ceil(n/5)
\* nodes, a node of a layer has at least the count of every node of a later
\* layer and a smaller y (it is above); for n = 12 layer 0 holds exactly the
\* three nodes of rank 0, 1, 2
C25_HierarchicalLayers ==
    layOut # <<>> =>
        LET n == Len(layIn.nodes)
            I == DOMAIN layIn.nodes
        IN  /\ \A i \in I : layOut[i].layer = LayRank(i) \div CeilFifth(n)
            /\ \A i \in I : layOut[i].layer \in 0..4
            /\ \A k \in 0..4 : Cardinality({i \in I : layOut[i].layer = k}) <= CeilFifth(n)
            /\ \A i, j \in I :
                  layOut[i].layer < layOut[j].layer =>
                      /\ LayCount(i) >= LayCount(j)
                      /\ layOut[i].y < layOut[j].y
            /\ n = 12 => {i \in I : layOut[i].layer = 0} = {i \in I : LayRank(i) < 3}

\* C25 witness: twelve nodes, layer 0 holding three of them, a tie in the
\* connection count across the border of layers 0 and 1 broken by array
\* order, and a node late in the array in layer 0
C25_Witness ==
    /\ layOut # <<>>
    /\ Len(layIn.nodes) = 12
    /\ Cardinality({i \in DOMAIN layOut : layOut[i].layer = 0}) = 3
    /\ \E i, j \in DOMAIN layOut :
          /\ i < j
          /\ layOut[i].layer = 0
          /\ layOut[j].layer = 1
          /\ LayCount(i) = LayCount(j)
    /\ layOut[12].layer = 0
    /\ layOut[1].layer > 0

\* C26: at most one debounce timer is pending; a keystroke leaves exactly one
\* pending, the one just started; a burst of keystrokes (each typed while
\* the timer of the one before is pending) is followed by one run of
\* handleSearch and no more, and the run makes the trimmed, lower-cased
\* value of the input at that moment the query
C26_DebounceRestarts ==
    /\ [](debounceTimers <= 1)
    /\ [](burstRuns <= 1)
    /\ [](searchDebounceTimer # "null" => debounceTimers + burstRuns >= 1)
    /\ [][(\E value \in HomeInputs : homeSearchInput(value)) =>
             (debounceTimers' = 1 /\ searchDebounceTimer' = "pending")]_vars
    /\ [][debounceFires =>
             (currentSearchQuery' = TrimLower(homeBox) /\ debounceTimers' = 0)]_vars

\* C26 witness: handleSearch has run once after a burst of keystrokes that
\* ended on a non-empty value, and a new keystroke has started a timer
C26_Witness ==
    /\ currentSearchQuery = "john"
    /\ homeBox = "j"
    /\ debounceTimers = 1
    /\ burstRuns = 0

\* C30: whenever the home search is collapsed the active query is empty: a
\* collapse clears the search, and a debounce timer pending at the collapse
\* installs no query afterwards
C30_CollapsedHasNoQuery == ~isSearchExpanded => currentSearchQuery = ""

\* the number of simulations that are running (at least)
AliveSimulations == Cardinality(orphans) + (IF simulation.running THEN 1 ELSE 0)

\* C27: at most one force simulation is alive at any time, and no simulation
\* of an earlier initialisation still runs on removed graph elements
C27_AtMostOneSimulationAlive == AliveSimulations <= 1 /\ orphans = {}

\* d.source.x, d.target.x of the static draw: the kind of position of the
\* node object the endpoint is, undefined on a bare id (the attribute is then
\* removed and the line end falls on the origin)
EndpointX(endpoint, ns) ==
    IF endpoint.obj
    THEN LET at == {i \in DOMAIN ns : ns[i].id = endpoint.id}
         IN  IF at = {} THEN "stale" ELSE ns[CHOOSE i \in at : TRUE].pos
    ELSE "undefined"

\* the line of a link runs between the positions the layout assigned
DrawnBetweenAssigned(link, ns) ==
    /\ EndpointX(link.source, ns) = "layout"
    /\ EndpointX(link.target, ns) = "layout"

\* C28: after a render pass in circular or hierarchical layout every edge
\* line runs from the assigned position of its source node to that of its
\* target node, also when the edges were built under a static layout
C28_StaticEdgesBetweenAssigned ==
    (StaticRendered /\ g = "attached") =>
        \A i \in DOMAIN links : DrawnBetweenAssigned(links[i], nodes)

\* C29: initializeConstellation runs only while the constellation view is
\* the active view: an initialisation scheduled by a view switch or a resize
\* does nothing when the user has left the view before its delay elapses
C29_InitOnlyWhileActive == [][initTimerFires => Visible]_vars

============================================================================
